---- MODULE Spec2Model ----
(***************************************************************************)
(* Grid placement engine of the newsletter pipeline                        *)
(* (pipeline/src/gridding/grid_placer.py): RetryGridPlacer and the         *)
(* GriddingProcessor run (retry loop, fallback layout, fill passes,        *)
(* blueprint export, blueprint save, fallback update).                     *)
(*                                                                         *)
(* Conventions.  A component id "name_i" is the pair <<name, i>>.  The     *)
(* numpy occupancy array is the set of cells <<x, y>> holding 1.  An       *)
(* optional data payload is a record [kind, val]: kind "None" is Python's  *)
(* None and kind "empty" is the empty dict.  All widths and heights are    *)
(* positive.                                                               *)
(***************************************************************************)
EXTENDS Integers, Sequences, FiniteSets, TLC

\* ------------------------------------------------------------------ bounds
\* Largest configured grid (columns, rows), largest max_retries and largest
\* stock max_count the model draws its run configuration from.
MaxCols == 3
MaxRows == 3
MaxRetries == 2
MaxStocks == 2

\* The per-item retry ceiling: for _ in range(10).
MaxTries == 10

\* ----------------------------------------------------------- data payloads
NoneData == [kind |-> "None", val |-> 0]
EmptyDict == [kind |-> "empty", val |-> 0]

\* ------------------------------------------------------------ Placement
Placement(component_id, x, y, width, height, component_type, data) ==
    [component_id |-> component_id, x |-> x, y |-> y, width |-> width,
     height |-> height, component_type |-> component_type, data |-> data]

\* ---------------------------------------------------------- RetryGridPlacer
\* RetryGridPlacer.__init__: an all-zero grid and no placements.
NewPlacer(grid_width, grid_height) ==
    [grid_width |-> grid_width, grid_height |-> grid_height,
     grid |-> {}, placements |-> <<>>]

\* The cells of the slice grid[y:y+height, x:x+width].
Slice(x, y, width, height) ==
    {<<cx, cy>> : cx \in x..(x + width - 1), cy \in y..(y + height - 1)}

can_place_ignoring_occupancy(placer, x, y, width, height) ==
    /\ ~(x + width > placer.grid_width \/ y + height > placer.grid_height)
    /\ ~(x < 0 \/ y < 0)

can_place_edge_excluded(placer, x, y, width, height) ==
    /\ ~(x + width >= placer.grid_width \/ y + height >= placer.grid_height)
    /\ ~(x < 0 \/ y < 0)
    /\ Slice(x, y, width, height) \cap placer.grid = {}

can_place(placer, x, y, width, height) ==
    /\ ~(x + width > placer.grid_width \/ y + height > placer.grid_height)
    /\ ~(x < 0 \/ y < 0)
    /\ Slice(x, y, width, height) \cap placer.grid = {}

place_component_unchecked(placer, component_id, x, y, width, height, component_type, data) ==
    [placer EXCEPT
        !.grid = @ \cup Slice(x, y, width, height),
        !.placements = Append(@, Placement(component_id, x, y, width, height,
                                           component_type, data))]

\* What place_component returns: False from the early return, True after the
\* placement was made.
place_component_returns(placer, x, y, width, height) ==
    IF ~can_place(placer, x, y, width, height) THEN FALSE ELSE TRUE

place_component_prepending(placer, component_id, x, y, width, height, component_type, data) ==
    IF ~can_place(placer, x, y, width, height)
    THEN placer
    ELSE [placer EXCEPT
            !.grid = @ \cup Slice(x, y, width, height),
            !.placements = <<Placement(component_id, x, y, width, height,
                                       component_type, data)>> \o @]

place_component_marking_first(placer, component_id, x, y, width, height, component_type, data) ==
    IF ~can_place(placer, x, y, width, height)
    THEN [placer EXCEPT
            !.grid = @ \cup (Slice(x, y, width, height)
                             \cap ((0..(placer.grid_width - 1)) \X (0..(placer.grid_height - 1))))]
    ELSE [placer EXCEPT
            !.grid = @ \cup Slice(x, y, width, height),
            !.placements = Append(@, Placement(component_id, x, y, width, height,
                                               component_type, data))]

\* place_component: the placer after the call (unchanged when rejected).
place_component(placer, component_id, x, y, width, height, component_type, data) ==
    IF ~can_place(placer, x, y, width, height)
    THEN placer
    ELSE [placer EXCEPT
            !.grid = @ \cup Slice(x, y, width, height),
            !.placements = Append(@, Placement(component_id, x, y, width, height,
                                               component_type, data))]

\* get_available_positions: the row-major scan, y outer and x inner.
ScanColumnMajor(placer, width, height) ==
    LET nx == placer.grid_width - width + 1
        ny == placer.grid_height - height + 1
    IN  IF nx <= 0 \/ ny <= 0
        THEN <<>>
        ELSE [k \in 1..(nx * ny) |-> <<(k - 1) \div ny, (k - 1) % ny>>]

ScanWithoutLastRow(placer, width, height) ==
    LET nx == placer.grid_width - width + 1
        ny == placer.grid_height - height
    IN  IF nx <= 0 \/ ny <= 0
        THEN <<>>
        ELSE [k \in 1..(nx * ny) |-> <<(k - 1) % nx, (k - 1) \div nx>>]

ScanOrder(placer, width, height) ==
    LET nx == placer.grid_width - width + 1
        ny == placer.grid_height - height + 1
    IN  IF nx <= 0 \/ ny <= 0
        THEN <<>>
        ELSE [k \in 1..(nx * ny) |-> <<(k - 1) % nx, (k - 1) \div nx>>]

get_available_positions_swapped(placer, width, height) ==
    SelectSeq(ScanOrder(placer, width, height),
              LAMBDA p : can_place(placer, p[1], p[2], height, width))

get_available_positions(placer, width, height) ==
    SelectSeq(ScanOrder(placer, width, height),
              LAMBDA p : can_place(placer, p[1], p[2], width, height))

Range(s) == {s[i] : i \in DOMAIN s}

\* The one element of a singleton set.  The loops below bind each step's
\* result to a variable before the next step reads it.
TheOne(S) == CHOOSE v \in S : TRUE

\* get_random_position: the positions random.choice may return; the empty
\* set stands for the None result.
get_random_position_unfiltered(placer, width, height) ==
    Range(ScanOrder(placer, width, height))

get_random_position(placer, width, height) ==
    Range(get_available_positions(placer, width, height))

find_2x2_spaces(placer) == get_available_positions(placer, 2, 2)
find_single_cells(placer) == get_available_positions(placer, 1, 1)
find_1x2_spaces(placer) == get_available_positions(placer, 1, 2)

find_2x1_spaces(placer) == get_available_positions(placer, 2, 1)

\* -------------------------------------------------------- component catalog
\* One entry of config['components']: a fixed-size component (Component) or,
\* when it has 'shapes', a flexible one (FlexibleComponent).
Fixed(name, width, height, count) ==
    [kind |-> "fixed", name |-> name, width |-> width, height |-> height,
     count |-> count, shapes |-> <<>>]

Flexible(name, shapes, total_count) ==
    [kind |-> "flexible", name |-> name, width |-> 0, height |-> 0,
     count |-> total_count, shapes |-> shapes]

Shape(width, height) == [width |-> width, height |-> height]

\* _create_components: the fixed and the flexible components, in config order.
components(config) == SelectSeq(config.components, LAMBDA c : c.kind = "fixed")
flexible_components(config) == SelectSeq(config.components, LAMBDA c : c.kind = "flexible")

\* Component.__post_init__: the instances name_1 .. name_count of a component.
Instances(c) ==
    [i \in 1..c.count |-> [id |-> <<c.name, i>>, width |-> c.width, height |-> c.height]]

RECURSIVE Flatten(_)
Flatten(ss) == IF ss = <<>> THEN <<>> ELSE Head(ss) \o Flatten(Tail(ss))

InstancesOf(cs) == Flatten([k \in DOMAIN cs |-> Instances(cs[k])])

\* branding_components / other_components and their instances, in loop order.
branding_components(config) == SelectSeq(components(config), LAMBDA c : c.name = "branding")
other_components(config) == SelectSeq(components(config), LAMBDA c : c.name # "branding")
BrandingInstances(config) == InstancesOf(branding_components(config))

\* The flexible instances before a shape is chosen: (component, i) slots.
FlexSlots(config) ==
    LET fcs == flexible_components(config)
    IN  Flatten([k \in DOMAIN fcs |->
                   [i \in 1..fcs[k].count |-> [id |-> <<fcs[k].name, i>>, shapes |-> fcs[k].shapes]]])

\* total_required = sum(len(c.instances)) + sum(fc.total_count).
RECURSIVE SumCounts(_)
SumCounts(cs) == IF cs = <<>> THEN 0 ELSE Head(cs).count + SumCounts(Tail(cs))

total_required(config) ==
    SumCounts(components(config)) + SumCounts(flexible_components(config))

\* The worklist all_components before the shuffle: the other fixed instances,
\* then one item per flexible slot with the shape chosen for it.
Worklist(config, choice) ==
    LET fixedItems == InstancesOf(other_components(config))
        slots == FlexSlots(config)
    IN  [k \in DOMAIN fixedItems |->
            [type |-> "fixed", id |-> fixedItems[k].id, width |-> fixedItems[k].width,
             height |-> fixedItems[k].height, placed |-> FALSE]]
        \o
        [k \in DOMAIN slots |->
            [type |-> "flexible", id |-> slots[k].id,
             width |-> slots[k].shapes[choice[k]].width,
             height |-> slots[k].shapes[choice[k]].height, placed |-> FALSE]]

\* The shape choices random.choice(shapes) can make, one per flexible slot.
ShapeChoices(config) ==
    LET slots == FlexSlots(config)
    IN  {ch \in [DOMAIN slots -> UNION {DOMAIN slots[k].shapes : k \in DOMAIN slots}] :
            \A k \in DOMAIN slots : ch[k] \in DOMAIN slots[k].shapes}

\* The orders random.shuffle can produce.
Permutations_(n) == {f \in [1..n -> 1..n] : \A i, j \in 1..n : f[i] = f[j] => i = j}
Shuffled(list, perm) == [k \in DOMAIN list |-> list[perm[k]]]

\* ------------------------------------------------------------ fill passes
\* The loop test of the stock pass: if stocks_placed >= max_stocks: break.
StockLimitOffByOne(stocks_placed, max_stocks) == stocks_placed > max_stocks

StockLimitReached(stocks_placed, max_stocks) == stocks_placed >= max_stocks

StockData(n) == [kind |-> "stock", val |-> n]

\* for i, (x, y) in enumerate(stock_spaces): the pass from scan index i on
\* (i counts from 1 here, so the id is stock_i).  Result: the placer and
\* stocks_placed after the loop.
RECURSIVE StockLoop(_, _, _, _, _)
StockLoop(placer, stock_spaces, i, stocks_placed, max_stocks) ==
    IF i > Len(stock_spaces) \/ StockLimitReached(stocks_placed, max_stocks)
    THEN [placer |-> placer, stocks_placed |-> stocks_placed]
    ELSE LET x == stock_spaces[i][1]
             y == stock_spaces[i][2]
             success == place_component_returns(placer, x, y, 2, 2)
         IN  TheOne({StockLoop(next, stock_spaces, i + 1,
                                   IF success THEN stocks_placed + 1 ELSE stocks_placed,
                                   max_stocks) :
                         next \in {place_component(placer, <<"stock", i>>, x, y, 2, 2,
                                                   "stock", StockData(i))}})

StockFill(placer, max_stocks) ==
    StockLoop(placer, find_2x2_spaces(placer), 1, 0, max_stocks)

\* Step 4: one day number at the first 2x1 space, when there is one.
DayFill(placer) ==
    LET day_spaces == find_2x1_spaces(placer)
    IN  IF day_spaces # <<>>
        THEN place_component(placer, <<"day", 1>>, day_spaces[1][1], day_spaces[1][2], 2, 1,
                             "dayNumber", [kind |-> "day_number", val |-> 1])
        ELSE placer

\* Step 5: one bit per scanned single cell; bit_value[i] is random.randint(0, 1).
RECURSIVE BitLoopUnnumbered(_, _, _, _)
BitLoopUnnumbered(placer, single_cells, i, bit_value) ==
    IF i > Len(single_cells)
    THEN placer
    ELSE TheOne({BitLoopUnnumbered(next, single_cells, i + 1, bit_value) :
                   next \in {place_component(placer, <<"bit", 1>>,
                                             single_cells[i][1], single_cells[i][2], 1, 1,
                                             "bit", [kind |-> "value", val |-> bit_value[i]])}})

RECURSIVE BitLoop(_, _, _, _)
BitLoop(placer, single_cells, i, bit_value) ==
    IF i > Len(single_cells)
    THEN placer
    ELSE TheOne({BitLoop(next, single_cells, i + 1, bit_value) :
                   next \in {place_component(placer, <<"bit", i>>,
                                             single_cells[i][1], single_cells[i][2], 1, 1,
                                             "bit", [kind |-> "value", val |-> bit_value[i]])}})

BitFill(placer, bit_value) == BitLoop(placer, find_single_cells(placer), 1, bit_value)

\* The sequences of n random bits the model draws from: all 0, all 1 and
\* alternating.
BitValues(n) ==
    {[i \in 1..n |-> 0], [i \in 1..n |-> 1], [i \in 1..n |-> i % 2]}

\* ------------------------------------------------------------ fallback store
\* The file fallback_grid_blueprint.json: missing, unreadable as a blueprint
\* (json.load or a key lookup raises), or a blueprint document.  What the file
\* holds before the run is an input of the run that only _load_fallback_layout
\* reads: until the run opens or writes the file it is "unopened", and the
\* content is drawn when _load_fallback_layout opens it.
NoBlueprint ==
    [metadata |-> [grid_config |-> [columns |-> 0, rows |-> 0], total_components |-> 0,
                   efficiency |-> 0],
     components |-> <<>>]

FileUnopened == [state |-> "unopened", blueprint |-> NoBlueprint]
FileMissing == [state |-> "missing", blueprint |-> NoBlueprint]
FileCorrupt == [state |-> "corrupt", blueprint |-> NoBlueprint]
FileJson(blueprint) == [state |-> "json", blueprint |-> blueprint]

\* _create_minimal_fallback: three place_component calls on a 12x16 grid.
_create_minimal_fallback ==
    LET p0 == NewPlacer(12, 16)
        p1 == place_component(p0, <<"branding", 1>>, 0, 0, 2, 2, "branding", NoneData)
        p2 == place_component(p1, <<"headline", 1>>, 2, 0, 5, 4, "headline", NoneData)
        p3 == place_component(p2, <<"quick_link", 1>>, 0, 2, 6, 1, "quick_link", NoneData)
    IN  p3

\* The loop over fallback_data['components'], from component i on.
RECURSIVE LoadLoopStoppingAtReject(_, _, _)
LoadLoopStoppingAtReject(placer, comps, i) ==
    IF i > Len(comps)
       \/ ~can_place(placer, comps[i].position.column - 1, comps[i].position.row - 1,
                     comps[i].position.width, comps[i].position.height)
    THEN placer
    ELSE TheOne({LoadLoopStoppingAtReject(next, comps, i + 1) :
                   next \in {place_component(placer, comps[i].id,
                                             comps[i].position.column - 1,
                                             comps[i].position.row - 1,
                                             comps[i].position.width, comps[i].position.height,
                                             comps[i].type, comps[i].data)}})

RECURSIVE LoadLoop(_, _, _)
LoadLoop(placer, comps, i) ==
    IF i > Len(comps)
    THEN placer
    ELSE TheOne({LoadLoop(next, comps, i + 1) :
                   next \in {place_component(placer, comps[i].id,
                                             comps[i].position.column - 1,
                                             comps[i].position.row - 1,
                                             comps[i].position.width, comps[i].position.height,
                                             comps[i].type, comps[i].data)}})

LoadIgnoringFile(file) == _create_minimal_fallback

LoadOnDefaultGrid(file) ==
    IF file.state = "missing"
    THEN _create_minimal_fallback
    ELSE IF file.state = "corrupt"
         THEN _create_minimal_fallback
         ELSE LoadLoop(NewPlacer(12, 16), file.blueprint.components, 1)

_load_fallback_layout(file) ==
    IF file.state = "missing"
    THEN _create_minimal_fallback
    ELSE IF file.state = "corrupt"
         THEN _create_minimal_fallback
         ELSE LoadLoop(NewPlacer(file.blueprint.metadata.grid_config.columns,
                                 file.blueprint.metadata.grid_config.rows),
                       file.blueprint.components, 1)

\* -------------------------------------------------------- blueprint exporter
\* 'pattern' in placement.component_id, for the four patterns the exporter
\* looks for; an id is name_i, so the name decides.
PatternsIn(name) ==
    CASE name \in {"headline", "github_repo", "branding", "quick_link"} -> {name}
      [] name = "headline_github_repo" -> {"headline", "github_repo"}
      [] name = "github_repo_branding" -> {"github_repo", "branding"}
      [] name = "branding_quick_link" -> {"branding", "quick_link"}
      [] OTHER -> {}

Contains(component_id, pattern) == pattern \in PatternsIn(component_id[1])

CompTypeTagFirst(placement) ==
    IF placement.component_type = "stock" THEN "stock"
    ELSE IF placement.component_type = "dayNumber" THEN "day_number"
    ELSE IF placement.component_type = "bit" THEN "bit"
    ELSE IF Contains(placement.component_id, "headline") THEN "headline"
    ELSE IF Contains(placement.component_id, "github_repo") THEN "github_repo"
    ELSE IF Contains(placement.component_id, "branding") THEN "branding"
    ELSE IF Contains(placement.component_id, "quick_link") THEN "quick_link"
    ELSE "unknown"

CompType(placement) ==
    IF Contains(placement.component_id, "headline") THEN "headline"
    ELSE IF Contains(placement.component_id, "github_repo") THEN "github_repo"
    ELSE IF Contains(placement.component_id, "branding") THEN "branding"
    ELSE IF Contains(placement.component_id, "quick_link") THEN "quick_link"
    ELSE IF placement.component_type = "stock" THEN "stock"
    ELSE IF placement.component_type = "dayNumber" THEN "day_number"
    ELSE IF placement.component_type = "bit" THEN "bit"
    ELSE "unknown"

\* placement.data or {}
DataOrEmpty(data) == IF data = NoneData \/ data = EmptyDict THEN EmptyDict ELSE data

\* round(occupied / total * 100, 1), in tenths of a percent (ties to even).
TruncateTenths(occupied, total) == (occupied * 1000) \div total

RoundTenths(occupied, total) ==
    LET q == (occupied * 1000) \div total
        r == (occupied * 1000) % total
    IN  IF 2 * r > total \/ (2 * r = total /\ q % 2 = 1) THEN q + 1 ELSE q

BlueprintComponentTransposed(placement) ==
    [id |-> placement.component_id,
     type |-> CompType(placement),
     position |-> [row |-> placement.x + 1, column |-> placement.y + 1,
                   width |-> placement.width, height |-> placement.height],
     data |-> DataOrEmpty(placement.data)]

BlueprintComponent(placement) ==
    [id |-> placement.component_id,
     type |-> CompType(placement),
     position |-> [row |-> placement.y + 1, column |-> placement.x + 1,
                   width |-> placement.width, height |-> placement.height],
     data |-> DataOrEmpty(placement.data)]

ExportWithConfiguredGrid(placer, config) ==
    [metadata |-> [grid_config |-> [columns |-> config.columns, rows |-> config.rows],
                   total_components |-> Len(placer.placements),
                   efficiency |-> RoundTenths(Cardinality(placer.grid),
                                              placer.grid_width * placer.grid_height)],
     components |-> [k \in DOMAIN placer.placements |-> BlueprintComponent(placer.placements[k])]]

_export_to_blueprint_format(placer, config) ==
    [metadata |-> [grid_config |-> [columns |-> placer.grid_width, rows |-> placer.grid_height],
                   total_components |-> Len(placer.placements),
                   efficiency |-> RoundTenths(Cardinality(placer.grid),
                                              placer.grid_width * placer.grid_height)],
     components |-> [k \in DOMAIN placer.placements |-> BlueprintComponent(placer.placements[k])]]

\* ------------------------------------------------------- run configurations
\* The catalogs the run configuration is drawn from.
CatalogBranding3x3 == <<Fixed("branding", 3, 3, 1)>>
CatalogTwoBrandings == <<Fixed("branding", 2, 2, 2), Fixed("headline", 1, 1, 1)>>
CatalogFlexible ==
    <<Fixed("headline", 2, 2, 1), Flexible("quick_link", <<Shape(1, 1), Shape(2, 1)>>, 1)>>
CatalogRow == <<Fixed("github_repo", 3, 1, 1), Fixed("headline", 1, 1, 1)>>
CatalogHeadline == <<Fixed("headline", 1, 1, 1)>>
CatalogHeadlineBranding == <<Fixed("headline", 1, 1, 1), Fixed("branding", 1, 1, 1)>>

Catalogs ==
    {CatalogBranding3x3, CatalogTwoBrandings, CatalogFlexible, CatalogRow, CatalogHeadline,
     CatalogHeadlineBranding}

\* max_retries is 0 (no attempt runs) or MaxRetries; max_count is only read
\* when the stock pass is enabled.
Configs ==
    {c \in [columns : 2..MaxCols, rows : 2..MaxRows, components : Catalogs,
            max_retries : {0, MaxRetries},
            stock_enabled : BOOLEAN, max_count : 0..MaxStocks,
            day_enabled : BOOLEAN, bit_enabled : BOOLEAN] :
        c.stock_enabled \/ c.max_count = 0}

\* The fallback files a run may find: none, an unreadable one, a blueprint of
\* an earlier 3x2 run, a blueprint whose components overlap or leave its
\* 2x2 grid, and one whose ids and type tags disagree.
Comp(id, type, row, column, width, height, data) ==
    [id |-> id, type |-> type,
     position |-> [row |-> row, column |-> column, width |-> width, height |-> height],
     data |-> data]

StoredClean ==
    [metadata |-> [grid_config |-> [columns |-> 3, rows |-> 2], total_components |-> 3,
                   efficiency |-> 1000],
     components |-> <<Comp(<<"headline", 1>>, "headline", 1, 1, 2, 2, EmptyDict),
                      Comp(<<"day", 1>>, "day_number", 1, 3, 1, 1, [kind |-> "day_number", val |-> 1]),
                      Comp(<<"bit", 1>>, "bit", 2, 3, 1, 1, [kind |-> "value", val |-> 1])>>]

StoredDirty ==
    [metadata |-> [grid_config |-> [columns |-> 2, rows |-> 2], total_components |-> 5,
                   efficiency |-> 1000],
     components |-> <<Comp(<<"branding", 1>>, "branding", 1, 1, 1, 1, EmptyDict),
                      Comp(<<"headline", 1>>, "headline", 1, 1, 2, 1, EmptyDict),
                      Comp(<<"quick_link", 1>>, "quick_link", 2, 2, 2, 1, EmptyDict),
                      Comp(<<"stock", 1>>, "stock", 2, 1, 1, 1, StockData(1)),
                      Comp(<<"bit", 1>>, "bit", 1, 2, 1, 1, [kind |-> "value", val |-> 0])>>]

\* A blueprint of a 5x1 grid whose ids hold more than one of the exporter's
\* patterns and whose type tags disagree with the ids.
StoredMixed ==
    [metadata |-> [grid_config |-> [columns |-> 5, rows |-> 1], total_components |-> 5,
                   efficiency |-> 1000],
     components |-> <<Comp(<<"headline_github_repo", 1>>, "stock", 1, 1, 1, 1, EmptyDict),
                      Comp(<<"github_repo_branding", 1>>, "bit", 1, 2, 1, 1, EmptyDict),
                      Comp(<<"branding_quick_link", 1>>, "dayNumber", 1, 3, 1, 1, EmptyDict),
                      Comp(<<"quick_link", 1>>, "stock", 1, 4, 1, 1, EmptyDict),
                      Comp(<<"day", 1>>, "dayNumber", 1, 5, 1, 1, [kind |-> "day_number", val |-> 1])>>]

FallbackFiles ==
    {FileMissing, FileCorrupt, FileJson(StoredClean), FileJson(StoredDirty), FileJson(StoredMixed)}

\* ------------------------------------------------------------------- state
VARIABLES
    config,          \* self.config['gridding'], fixed for the run
    fallback_file,   \* fallback_grid_blueprint.json
    pc,              \* where process() is
    attempt,         \* attempts started by the for loop
    placer,          \* the RetryGridPlacer in hand
    placed,          \* ids of the fixed instances whose 'placed' flag is set
    bi,              \* next branding instance
    all_components,  \* the shuffled worklist of the attempt
    wi,              \* next worklist item
    tries,           \* position draws made for the current worklist item
    stocks_placed,   \* stocks_placed of the stock pass
    blueprint,       \* the exported blueprint
    result,          \* what process() returns
    error,           \* the 'error' message of a failure result ("" when there is none)
    origin,          \* history: per placement, the attempt that made it (0: fallback load)
    drawn,           \* history: get_random_position calls per instance id in this attempt
    status,          \* history: outcome of the current attempt
    failures,        \* history: attempts that failed
    warned,          \* history: the 'Only placed N/M' warning was logged
    layout_source,   \* history: "fresh", "file" or "minimal" once a layout is returned
    discarded,       \* history: placements made in attempts that failed
    store_log        \* history: reads, writes and failed writes of the fallback file

vars ==
    <<config, fallback_file, pc, attempt, placer, placed, bi, all_components, wi, tries,
      stocks_placed, blueprint, result, error, origin, drawn, status, failures, warned,
      layout_source, discarded, store_log>>

RequiredIds(cfg) ==
    {BrandingInstances(cfg)[k].id : k \in DOMAIN BrandingInstances(cfg)}
    \cup {InstancesOf(other_components(cfg))[k].id : k \in DOMAIN InstancesOf(other_components(cfg))}
    \cup {FlexSlots(cfg)[k].id : k \in DOMAIN FlexSlots(cfg)}

\* The history of placements follows the placement list: the entries a step
\* appends carry the step's tag.
Extend(hist, old, new, tag) ==
    hist \o [k \in 1..(Len(new.placements) - Len(old.placements)) |-> tag]

Init ==
    /\ config \in Configs
    /\ fallback_file = FileUnopened
    /\ pc = "loop"
    /\ attempt = 0
    /\ placer = NewPlacer(config.columns, config.rows)
    /\ placed = {}
    /\ bi = 1
    /\ all_components = <<>>
    /\ wi = 1
    /\ tries = 0
    /\ stocks_placed = 0
    /\ blueprint = NoBlueprint
    /\ result = "running"
    /\ error = ""
    /\ origin = <<>>
    /\ drawn = [id \in RequiredIds(config) |-> 0]
    /\ status = "none"
    /\ failures = 0
    /\ warned = FALSE
    /\ layout_source = "none"
    /\ discarded = 0
    /\ store_log = <<>>

\* ------------------------------------------------------------ retry loop
\* _reset_all_components: every fixed instance back to unplaced.
KeepPlacedFlags(flags) == flags

_reset_all_components(flags) == {}

\* placer = RetryGridPlacer(grid_width, grid_height), at the top of an attempt.
ReusePlacer(previous, grid_width, grid_height) == previous

AttemptPlacer(previous, grid_width, grid_height) == NewPlacer(grid_width, grid_height)

\* for attempt in range(max_retries): the head of one more attempt.
BeginAttempt ==
    /\ pc = "loop"
    /\ attempt < config.max_retries
    /\ attempt' = attempt + 1
    /\ placed' = _reset_all_components(placed)
    /\ placer' = AttemptPlacer(placer, config.columns, config.rows)
    /\ origin' = SubSeq(origin, 1, Len(placer'.placements))
    /\ bi' = 1
    /\ all_components' = <<>>
    /\ wi' = 1
    /\ tries' = 0
    /\ drawn' = [id \in DOMAIN drawn |-> 0]
    /\ status' = "running"
    /\ pc' = "branding"
    /\ UNCHANGED <<config, error, fallback_file, stocks_placed, blueprint, result, failures,
                   warned, layout_source, discarded, store_log>>

\* Where the branding loop goes after a failed instance: break, then continue
\* with the next attempt.
BrandingFailureGoesOn(failed) == "branding"

AfterBrandingFailure(failed) == "loop"

\* Step 1, one branding instance: one position draw, then place_component.
PlaceBranding ==
    /\ pc = "branding"
    /\ bi <= Len(BrandingInstances(config))
    /\ LET instance == BrandingInstances(config)[bi]
           positions == get_random_position(placer, instance.width, instance.height)
           Fail == /\ pc' = AfterBrandingFailure(TRUE)
                   /\ bi' = bi + 1
                   /\ status' = "failed"
                   /\ failures' = failures + 1
                   /\ discarded' = discarded + Len(placer.placements)
                   /\ UNCHANGED <<placer, placed, origin>>
       IN  /\ drawn' = [drawn EXCEPT ![instance.id] = @ + 1]
           /\ IF positions = {}
              THEN Fail
              ELSE \E position \in positions :
                     IF place_component_returns(placer, position[1], position[2],
                                                instance.width, instance.height)
                     THEN /\ placer' = place_component(placer, instance.id, position[1], position[2],
                                                       instance.width, instance.height,
                                                       "branding", NoneData)
                          /\ placed' = placed \cup {instance.id}
                          /\ origin' = Extend(origin, placer, placer', attempt)
                          /\ bi' = bi + 1
                          /\ UNCHANGED <<pc, status, failures, discarded>>
                     ELSE Fail
    /\ UNCHANGED <<config, error, fallback_file, attempt, all_components, wi, tries, stocks_placed,
                   blueprint, result, warned, layout_source, store_log>>

\* After the branding loop: "if not branding_success: continue"; otherwise
\* Step 2 builds the worklist: the other fixed instances and one randomly
\* shaped instance per flexible slot, shuffled.
BuildWorklist ==
    /\ pc = "branding"
    /\ bi > Len(BrandingInstances(config))
    /\ IF status = "failed"
       THEN /\ pc' = "loop"
            /\ UNCHANGED all_components
       ELSE /\ pc' = "placing"
            /\ \E choice \in ShapeChoices(config) :
                 LET list == Worklist(config, choice)
                 IN  \E perm \in Permutations_(Len(list)) :
                       all_components' = Shuffled(list, perm)
    /\ wi' = 1
    /\ tries' = 0
    /\ UNCHANGED <<config, error, fallback_file, attempt, placer, placed, bi, stocks_placed, blueprint,
                   result, origin, drawn, status, failures, warned, layout_source, discarded,
                   store_log>>

\* instance['placed'] of a worklist item: a fixed item shares the flag of its
\* component's instance, a flexible item has its own.
InstancePlaced(item, flags) ==
    IF item.type = "fixed" THEN item.id \in flags ELSE item.placed

\* for _ in range(10): whether another draw is made after `made` draws.
OneTryTooMany(made) == made <= MaxTries

TriesLeft(made) == made < MaxTries

\* One turn of "for _ in range(10)" for the current worklist item (or the
\* "continue" for an item already placed).
TryPosition ==
    /\ pc = "placing"
    /\ wi <= Len(all_components)
    /\ LET item == all_components[wi]
           positions == get_random_position(placer, item.width, item.height)
           Miss == /\ tries' = tries + 1
                   /\ UNCHANGED <<placer, placed, origin, wi, all_components>>
       IN  IF InstancePlaced(item, placed)
           THEN /\ wi' = wi + 1
                /\ tries' = 0
                /\ UNCHANGED <<placer, placed, origin, all_components, drawn>>
           ELSE /\ TriesLeft(tries)
                /\ drawn' = [drawn EXCEPT ![item.id] = @ + 1]
                /\ IF positions = {}
                   THEN Miss
                   ELSE \E position \in positions :
                          IF place_component_returns(placer, position[1], position[2],
                                                     item.width, item.height)
                          THEN /\ placer' = place_component(placer, item.id, position[1], position[2],
                                                            item.width, item.height, "fixed", NoneData)
                               /\ placed' = IF item.type = "fixed" THEN placed \cup {item.id} ELSE placed
                               /\ all_components' = [all_components EXCEPT ![wi].placed = TRUE]
                               /\ origin' = Extend(origin, placer, placer', attempt)
                               /\ wi' = wi + 1
                               /\ tries' = 0
                          ELSE Miss
    /\ UNCHANGED <<config, error, fallback_file, pc, attempt, bi, stocks_placed, blueprint, result,
                   status, failures, warned, layout_source, discarded, store_log>>

\* All 10 draws used without a placement: all_placed = False, break, continue.
ItemFailed ==
    /\ pc = "placing"
    /\ wi <= Len(all_components)
    /\ ~InstancePlaced(all_components[wi], placed)
    /\ ~TriesLeft(tries)
    /\ status' = "failed"
    /\ failures' = failures + 1
    /\ discarded' = discarded + Len(placer.placements)
    /\ pc' = "loop"
    /\ UNCHANGED <<config, error, fallback_file, attempt, placer, placed, bi, all_components, wi, tries,
                   stocks_placed, blueprint, result, origin, drawn, warned, layout_source,
                   store_log>>

\* Where the loop goes once every worklist item is placed: break.
SuccessKeepsLooping(done) == "loop"

AfterSuccess(done) == "stocks"

\* all_placed: leave the loop; the final verification compares total_placed
\* with total_required and logs the warning when fewer were placed.
AttemptSucceeded ==
    /\ pc = "placing"
    /\ wi > Len(all_components)
    /\ status' = "succeeded"
    /\ warned' = (Len(placer.placements) < total_required(config))
    /\ pc' = AfterSuccess(TRUE)
    /\ UNCHANGED <<config, error, fallback_file, attempt, placer, placed, bi, all_components, wi, tries,
                   stocks_placed, blueprint, result, origin, drawn, failures, layout_source,
                   discarded, store_log>>

\* Where the orchestrator goes with the loaded fallback layout:
\* return self._load_fallback_layout().
FallbackThenFills(loaded) == "stocks"

AfterFallback(loaded) == "export"

\* The for loop's else branch: every attempt failed, load the fallback layout.
LoadFallback ==
    /\ pc = "loop"
    /\ attempt >= config.max_retries
    /\ \E file \in FallbackFiles :
         /\ fallback_file' = file
         /\ placer' = _load_fallback_layout(file)
         /\ layout_source' = IF file.state = "json" THEN "file" ELSE "minimal"
         /\ store_log' = IF file.state = "missing" THEN store_log ELSE Append(store_log, "read")
    /\ origin' = [k \in 1..Len(placer'.placements) |-> 0]
    /\ pc' = AfterFallback(TRUE)
    /\ UNCHANGED <<config, error, attempt, placed, bi, all_components, wi, tries,
                   stocks_placed, blueprint, result, drawn, status, failures, warned, discarded>>

\* ------------------------------------------------- fill passes, as steps
\* Step 3, when stock_components.enabled.
StockPass ==
    /\ pc = "stocks"
    /\ LET after == StockFill(placer, config.max_count)
       IN  IF config.stock_enabled
           THEN /\ placer' = after.placer
                /\ stocks_placed' = after.stocks_placed
           ELSE UNCHANGED <<placer, stocks_placed>>
    /\ origin' = Extend(origin, placer, placer', attempt)
    /\ pc' = "day"
    /\ UNCHANGED <<config, error, fallback_file, attempt, placed, bi, all_components, wi, tries,
                   blueprint, result, drawn, status, failures, warned, layout_source, discarded,
                   store_log>>

\* Step 4, when day_number_component.enabled.
DayPass ==
    /\ pc = "day"
    /\ placer' = IF config.day_enabled THEN DayFill(placer) ELSE placer
    /\ origin' = Extend(origin, placer, placer', attempt)
    /\ pc' = "bits"
    /\ UNCHANGED <<config, error, fallback_file, attempt, placed, bi, all_components, wi, tries,
                   stocks_placed, blueprint, result, drawn, status, failures, warned,
                   layout_source, discarded, store_log>>

\* Step 5, when bit_components.enabled; then the placer is returned.
BitPass ==
    /\ pc = "bits"
    /\ IF config.bit_enabled
       THEN \E bit_value \in BitValues(Len(find_single_cells(placer))) :
              placer' = BitFill(placer, bit_value)
       ELSE UNCHANGED placer
    /\ origin' = Extend(origin, placer, placer', attempt)
    /\ layout_source' = "fresh"
    /\ pc' = "export"
    /\ UNCHANGED <<config, error, fallback_file, attempt, placed, bi, all_components, wi, tries,
                   stocks_placed, blueprint, result, drawn, status, failures, warned, discarded,
                   store_log>>

\* ------------------------------------------------- export, save, fallback
\* process() wraps the whole run in try / except Exception: an exception that
\* reaches it is logged and returned as {'success': False, 'error': str(e)}.
Propagated(message) == [result |-> "raised", error |-> message]

Caught(message) == [result |-> "failure", error |-> message]

\* The exporter reads self.config['grid_config']['cell_size'] for the
\* metadata; the key is used nowhere else, and without it the lookup raises
\* KeyError('cell_size'), which process() catches.
Export ==
    /\ pc = "export"
    /\ \E has_cell_size \in BOOLEAN :
         IF has_cell_size
         THEN /\ blueprint' = _export_to_blueprint_format(placer, config)
              /\ pc' = "save"
              /\ UNCHANGED <<result, error>>
         ELSE /\ result' = Caught("'cell_size'").result
              /\ error' = Caught("'cell_size'").error
              /\ pc' = "done"
              /\ UNCHANGED blueprint
    /\ UNCHANGED <<config, fallback_file, attempt, placer, placed, bi, all_components, wi,
                   tries, stocks_placed, origin, drawn, status, failures, warned,
                   layout_source, discarded, store_log>>

\* _save_blueprint returns the path, or None when writing raised; on None
\* process() returns the failure result.
SaveBlueprint ==
    /\ pc = "save"
    /\ \E saved \in BOOLEAN :
         IF saved
         THEN pc' = "update_fallback" /\ UNCHANGED <<result, error>>
         ELSE pc' = "done" /\ result' = "failure" /\ error' = "Failed to save grid blueprint"
    /\ UNCHANGED <<config, fallback_file, attempt, placer, placed, bi, all_components, wi,
                   tries, stocks_placed, blueprint, origin, drawn, status, failures, warned,
                   layout_source, discarded, store_log>>

\* _update_fallback_layout: the blueprint replaces the fallback file; when the
\* write raises, the file is left as it was (open failed) or left unreadable
\* (the dump failed part-way), the exception is logged and process() still
\* returns success.  The store log gets "write" when the file was changed and
\* "write_failed" when the write raised.
FailureOnFallbackError(outcome) == IF outcome = "written" THEN "success" ELSE "failure"

UpdateResult(outcome) == "success"

UpdateFallback ==
    /\ pc = "update_fallback"
    /\ \E outcome \in {"written", "untouched", "truncated"} :
         /\ fallback_file' = CASE outcome = "written" -> FileJson(blueprint)
                               [] outcome = "untouched" -> fallback_file
                               [] outcome = "truncated" -> FileCorrupt
         /\ store_log' = store_log \o
                            CASE outcome = "written" -> <<"write">>
                              [] outcome = "untouched" -> <<"write_failed">>
                              [] outcome = "truncated" -> <<"write", "write_failed">>
         /\ result' = UpdateResult(outcome)
    /\ pc' = "done"
    /\ UNCHANGED <<config, error, attempt, placer, placed, bi, all_components, wi, tries,
                   stocks_placed, blueprint, origin, drawn, status, failures, warned,
                   layout_source, discarded>>

Next ==
    \/ BeginAttempt
    \/ PlaceBranding
    \/ BuildWorklist
    \/ TryPosition
    \/ ItemFailed
    \/ AttemptSucceeded
    \/ LoadFallback
    \/ StockPass
    \/ DayPass
    \/ BitPass
    \/ Export
    \/ SaveBlueprint
    \/ UpdateFallback

Spec == Init /\ [][Next]_vars

\* The runs with every fill pass enabled and the largest stock limit.
LiveInit ==
    /\ Init
    /\ config.stock_enabled /\ config.day_enabled /\ config.bit_enabled
    /\ config.max_count = MaxStocks

\* The run is one synchronous thread: it takes its next step whenever it has one.
FairSpec == LiveInit /\ [][Next]_vars /\ WF_vars(Next)

\* ------------------------------------------------------------ properties
\* process() has exported a blueprint.
Emitted == pc \in {"save", "update_fallback", "done"} /\ blueprint # NoBlueprint

\* _retry_placement_algorithm has returned a placer.
Returned == pc \in {"export", "save", "update_fallback", "done"}

\* Two blueprint components' rectangles share a cell.
Intersect(a, b) ==
    /\ a.position.column < b.position.column + b.position.width
    /\ b.position.column < a.position.column + a.position.width
    /\ a.position.row < b.position.row + b.position.height
    /\ b.position.row < a.position.row + a.position.height

\* C1: in every emitted blueprint (fresh layout with its fill passes, fallback
\* file, or minimal layout) no two components' rectangles intersect.
C1_NoOverlap ==
    Emitted =>
        \A i, j \in DOMAIN blueprint.components :
            i < j => ~Intersect(blueprint.components[i], blueprint.components[j])

\* A fresh blueprint holding required, stock and bit components.
C1_Witness ==
    /\ Emitted
    /\ layout_source = "fresh"
    /\ stocks_placed >= 1
    /\ \E k \in DOMAIN blueprint.components : blueprint.components[k].type = "bit"
    /\ Len(blueprint.components) >= 4

\* C2: every component of an emitted blueprint lies inside the grid named by
\* that blueprint's metadata.grid_config: row >= 1, column >= 1,
\* (column-1)+width <= columns, (row-1)+height <= rows.
C2_InBounds ==
    Emitted =>
        \A k \in DOMAIN blueprint.components :
            LET pos == blueprint.components[k].position
                grid_config == blueprint.metadata.grid_config
            IN  /\ pos.row >= 1
                /\ pos.column >= 1
                /\ (pos.column - 1) + pos.width <= grid_config.columns
                /\ (pos.row - 1) + pos.height <= grid_config.rows

\* A blueprint from a fallback file whose grid is wider than the configured
\* one, with a component in the file's last column.
C2_Witness ==
    /\ pc = "save"
    /\ layout_source = "file"
    /\ blueprint.metadata.grid_config.columns > config.columns
    /\ \E k \in DOMAIN blueprint.components :
         blueprint.components[k].position.column > config.columns

RECURSIVE SumArea(_)
SumArea(ps) == IF ps = <<>> THEN 0 ELSE Head(ps).width * Head(ps).height + SumArea(Tail(ps))

Covers(p, cell) ==
    /\ p.x <= cell[1] /\ cell[1] < p.x + p.width
    /\ p.y <= cell[2] /\ cell[2] < p.y + p.height

\* C3: at any time the occupied cells are exactly the cells of the placed
\* rectangles, each occupied cell lies in exactly one placement's rectangle,
\* and the occupied-cell count is the sum of width*height over the placements.
C3_OccupancyMatchesPlacements ==
    LET ps == placer.placements
        AllCells == (0..(placer.grid_width - 1)) \X (0..(placer.grid_height - 1))
    IN  /\ placer.grid \subseteq AllCells
        /\ \A cell \in AllCells :
             IF cell \in placer.grid
             THEN Cardinality({k \in DOMAIN ps : Covers(ps[k], cell)}) = 1
             ELSE \A k \in DOMAIN ps : ~Covers(ps[k], cell)
        /\ \A k \in DOMAIN ps :
             /\ ps[k].x >= 0 /\ ps[k].x + ps[k].width <= placer.grid_width
             /\ ps[k].y >= 0 /\ ps[k].y + ps[k].height <= placer.grid_height
        /\ Cardinality(placer.grid) = SumArea(ps)

\* A placer loaded from a fallback file of which some place_component calls
\* were accepted and some rejected.
C3_Witness ==
    /\ pc = "export"
    /\ layout_source = "file"
    /\ Len(placer.placements) >= 2
    /\ Len(placer.placements) < Len(fallback_file.blueprint.components)

BrandingIds == {BrandingInstances(config)[k].id : k \in DOMAIN BrandingInstances(config)}

\* C4: the retry orchestrator terminates with a layout; it starts at most
\* max_retries attempts, and within an attempt draws a position at most once
\* per branding instance and at most 10 times per worklist item.
C4_TerminatesWithinBudget ==
    /\ [](/\ attempt <= config.max_retries
          /\ \A id \in DOMAIN drawn :
               drawn[id] <= (IF id \in BrandingIds THEN 1 ELSE 10))
    /\ <>Returned

\* The orchestrator has returned after a last attempt in which a worklist
\* item used all its draws.
C4_Witness ==
    /\ Returned
    /\ config.max_retries >= 2
    /\ attempt = config.max_retries
    /\ \E id \in DOMAIN drawn : drawn[id] = 10

\* Placement p is fallback component c with its 1-based row and column
\* converted to 0-based y and x.
Reconstructs(p, c) ==
    /\ p.component_id = c.id
    /\ p.x = c.position.column - 1
    /\ p.y = c.position.row - 1
    /\ p.width = c.position.width
    /\ p.height = c.position.height
    /\ p.component_type = c.type
    /\ p.data = c.data

InRecordGrid(c, grid_config) ==
    /\ c.position.column >= 1 /\ c.position.row >= 1
    /\ (c.position.column - 1) + c.position.width <= grid_config.columns
    /\ (c.position.row - 1) + c.position.height <= grid_config.rows

\* The placer holds the layout of the record: the record's grid, and the
\* record's components in file order, none invented, none dropped that lies
\* in the grid clear of every component before it.
FromRecord(p, record) ==
    LET comps == record.components
        n == Len(p.placements)
    IN  /\ p.grid_width = record.metadata.grid_config.columns
        /\ p.grid_height = record.metadata.grid_config.rows
        /\ \E f \in [1..n -> DOMAIN comps] :
             /\ \A a, b \in 1..n : a < b => f[a] < f[b]
             /\ \A k \in 1..n : Reconstructs(p.placements[k], comps[f[k]])
             /\ \A j \in DOMAIN comps :
                  (/\ InRecordGrid(comps[j], record.metadata.grid_config)
                   /\ \A e \in 1..(j - 1) : ~Intersect(comps[e], comps[j]))
                  => \E k \in 1..n : f[k] = j

\* The placer holds the hard-coded minimal layout: a 12x16 grid with
\* branding_1 first and nothing but the hard-coded components.
IsMinimalLayout(p) ==
    /\ p.grid_width = 12 /\ p.grid_height = 16
    /\ Len(p.placements) >= 1
    /\ p.placements[1] = Placement(<<"branding", 1>>, 0, 0, 2, 2, "branding", NoneData)
    /\ \A k \in DOMAIN p.placements :
         p.placements[k].component_id \in {<<"branding", 1>>, <<"headline", 1>>, <<"quick_link", 1>>}

\* C5: when every one of the max_retries attempts has failed (also when
\* max_retries = 0), the orchestrator returns, without an error, the layout
\* reconstructed from the fallback record, or the hard-coded minimal layout
\* when the record is missing or cannot be read.
C5_FallbackOnExhaustion ==
    (pc \in {"export", "save", "update_fallback"} /\ failures = config.max_retries) =>
        /\ layout_source \in {"file", "minimal"}
        /\ result = "running"
        /\ IF fallback_file.state = "json"
           THEN layout_source = "file" /\ FromRecord(placer, fallback_file.blueprint)
           ELSE layout_source = "minimal" /\ IsMinimalLayout(placer)

\* Two attempts ran and failed, and the layout came from the fallback file.
C5_Witness ==
    /\ pc = "export"
    /\ config.max_retries >= 2
    /\ failures = config.max_retries
    /\ discarded >= 1
    /\ layout_source = "file"
    /\ Len(placer.placements) >= 2

\* C6: the first successful attempt ends the retry loop: after an attempt in
\* which everything was placed no attempt is started, and the grid that goes
\* on to the fill passes is that attempt's grid, as the attempt left it.
C6_FirstSuccessEndsLoop ==
    /\ [][status = "succeeded" =>
            /\ attempt' = attempt
            /\ status' = "succeeded"
            /\ pc' \notin {"loop", "branding", "placing"}]_vars
    /\ [][(status # "succeeded" /\ status' = "succeeded") =>
            (placer' = placer /\ pc' = "stocks")]_vars
    /\ [](pc = "stocks" =>
            /\ status = "succeeded"
            /\ Len(origin) = Len(placer.placements)
            /\ \A k \in DOMAIN origin : origin[k] = attempt)

\* A run that succeeded in its first attempt with attempts to spare, finished.
C6_Witness ==
    /\ pc = "done"
    /\ status = "succeeded"
    /\ attempt = 1
    /\ attempt < config.max_retries
    /\ Len(placer.placements) >= 2

\* The branding instance at hand has no free position.
BrandingStuck ==
    /\ pc = "branding"
    /\ status = "running"
    /\ bi <= Len(BrandingInstances(config))
    /\ get_available_positions(placer, BrandingInstances(config)[bi].width,
                               BrandingInstances(config)[bi].height) = <<>>

\* The worklist item at hand has used its 10 draws without being placed.
ItemExhausted ==
    /\ pc = "placing"
    /\ wi <= Len(all_components)
    /\ drawn[all_components[wi].id] = 10

\* C7: an attempt aborts at its first failure.  A branding instance without a
\* free position, or a worklist item that failed its 10 draws, fails the whole
\* attempt; after that nothing is placed and no position is drawn in that
\* attempt, and the orchestrator goes to the next attempt or to the fallback.
C7_AbortAtFirstFailure ==
    /\ [][(BrandingStuck \/ ItemExhausted) =>
            (status' = "failed" /\ pc' = "loop" /\ placer' = placer)]_vars
    /\ [][status = "failed" =>
            \/ (placer' = placer /\ drawn' = drawn /\ attempt' = attempt)
            \/ (pc = "loop" /\ attempt' = attempt + 1 /\ status' = "running")
            \/ (pc = "loop" /\ pc' = "export" /\ layout_source' \in {"file", "minimal"})]_vars
    /\ [](status = "failed" => (pc = "loop" \/ (Returned /\ layout_source # "fresh")))

\* A worklist item has failed its 10 draws while a later item is still
\* untried.
C7_Witness ==
    /\ pc = "loop"
    /\ status = "failed"
    /\ tries = 10
    /\ wi < Len(all_components)

\* Placements carrying a given id.
WithId(ps, id) == {k \in DOMAIN ps : ps[k].component_id = id}

\* C8: when the loop ends in success, before any fill pass, the placement list
\* holds exactly one placement per required instance (count per fixed
\* component, total_count per flexible component), a fixed one with its
\* component's size and a flexible one with a size from its shapes list; so
\* total placed = total required, and the 'only placed N/M' warning is never
\* logged.
C8_AllRequiredPlaced ==
    /\ warned = FALSE
    /\ pc = "stocks" =>
         LET ps == placer.placements
         IN  /\ Len(ps) = SumCounts(config.components)
             /\ \A c \in Range(config.components) :
                  \A i \in 1..c.count :
                    /\ Cardinality(WithId(ps, <<c.name, i>>)) = 1
                    /\ \A k \in WithId(ps, <<c.name, i>>) :
                         IF c.kind = "fixed"
                         THEN ps[k].width = c.width /\ ps[k].height = c.height
                         ELSE \E sh \in Range(c.shapes) :
                                ps[k].width = sh.width /\ ps[k].height = sh.height

\* Success in a later attempt, after a failed one, with a flexible instance
\* placed in its second shape.
C8_Witness ==
    /\ pc = "stocks"
    /\ failures >= 1
    /\ Len(placer.placements) >= 2
    /\ \E k \in DOMAIN placer.placements :
         /\ placer.placements[k].component_id = <<"quick_link", 1>>
         /\ placer.placements[k].width = 2

\* C9: every attempt starts from an empty grid of the configured size, an
\* empty placement list and all fixed instances unplaced; the returned layout
\* holds no placement made during a failed attempt.
C9_FreshStartPerAttempt ==
    /\ [][attempt' # attempt =>
            /\ attempt' = attempt + 1
            /\ placer' = NewPlacer(config.columns, config.rows)
            /\ placed' = {}]_vars
    /\ [](Returned =>
            /\ Len(origin) = Len(placer.placements)
            /\ IF layout_source = "fresh"
               THEN status = "succeeded" /\ \A k \in DOMAIN origin : origin[k] = attempt
               ELSE \A k \in DOMAIN origin : origin[k] = 0)

\* A fresh layout returned after a failed attempt that had made placements.
C9_Witness ==
    /\ Returned
    /\ layout_source = "fresh"
    /\ failures >= 1
    /\ discarded >= 1

\* No 2x2 block of free cells is left on the placer's grid.
NoFree2x2(p) ==
    \A x \in 0..(p.grid_width - 2), y \in 0..(p.grid_height - 2) :
        {<<x, y>>, <<x + 1, y>>, <<x, y + 1>>, <<x + 1, y + 1>>} \cap p.grid # {}

StockPlacements(p) == {k \in DOMAIN p.placements : p.placements[k].component_type = "stock"}

\* C10: with stock fill enabled the stock pass places at most max_count
\* stocks, and when it ends either exactly max_count were placed or no free
\* 2x2 position is left on the grid.
C10_StockPassLimit ==
    (pc = "day" /\ config.stock_enabled) =>
        /\ Cardinality(StockPlacements(placer)) = stocks_placed
        /\ stocks_placed <= config.max_count
        /\ (stocks_placed = config.max_count \/ NoFree2x2(placer))

\* The pass ended below the limit, after placing a stock, because the grid
\* ran out of 2x2 space.
C10_Witness ==
    /\ pc = "day"
    /\ config.stock_enabled
    /\ stocks_placed >= 1
    /\ stocks_placed < config.max_count

\* The placements a step appended to the placement list.
Added(before, after) ==
    SubSeq(after.placements, Len(before.placements) + 1, Len(after.placements))

\* The free positions for a width x height rectangle on the placer's grid.
FreeAt(p, width, height) ==
    {pos \in (0..(p.grid_width - width)) \X (0..(p.grid_height - height)) :
        \A cx \in pos[1]..(pos[1] + width - 1), cy \in pos[2]..(pos[2] + height - 1) :
            <<cx, cy>> \notin p.grid}

\* Row-major order of positions: by y, then by x.
Before(a, b) == a[2] < b[2] \/ (a[2] = b[2] /\ a[1] < b[1])

\* The 1-based index of a free position in the row-major list of free positions.
Rank(pos, free) == 1 + Cardinality({g \in free : Before(g, pos)})

Pos(placement) == <<placement.x, placement.y>>

\* Two 2x2 rectangles at positions a and b share a cell.
Overlap2x2(a, b) ==
    /\ a[1] < b[1] + 2 /\ b[1] < a[1] + 2
    /\ a[2] < b[2] + 2 /\ b[2] < a[2] + 2

IsStockAt(placement, free) ==
    /\ Pos(placement) \in free
    /\ placement.width = 2 /\ placement.height = 2
    /\ placement.component_type = "stock"
    /\ placement.component_id = <<"stock", Rank(Pos(placement), free)>>

DayPlacements(p) ==
    {k \in DOMAIN p.placements : p.placements[k].component_type = "dayNumber"}

\* C12: with day-number fill enabled, the day pass (which follows the stock
\* pass) makes exactly one placement when a free position for a 2-wide,
\* 1-high rectangle exists: day_1, 2x1, at the first such position in
\* row-major order; it makes none when no such position exists.  No layout
\* ever holds more than one placement made by this pass (a layout loaded from
\* the fallback store holds none made by it).
C12_OneDayNumberAtFirstSpace ==
    /\ [][(pc = "day" /\ config.day_enabled) =>
            LET free == FreeAt(placer, 2, 1)
                added == Added(placer, placer')
            IN  IF free = {}
                THEN placer' = placer
                ELSE /\ Len(added) = 1
                     /\ added[1].component_id = <<"day", 1>>
                     /\ added[1].component_type = "dayNumber"
                     /\ added[1].width = 2 /\ added[1].height = 1
                     /\ Pos(added[1]) \in free
                     /\ Rank(Pos(added[1]), free) = 1
                     /\ placer'.grid = placer.grid \cup Slice(added[1].x, added[1].y, 2, 1)]_vars
    /\ [](layout_source \notin {"file", "minimal"} => Cardinality(DayPlacements(placer)) <= 1)

\* The day number was placed after a stock, away from the grid's first row.
C12_Witness ==
    /\ pc = "bits"
    /\ config.day_enabled
    /\ stocks_placed >= 1
    /\ \E k \in DayPlacements(placer) : placer.placements[k].y > 0

BitPlacements(p) ==
    {k \in DOMAIN p.placements : p.placements[k].component_type = "bit"}

AllCellsOf(p) == (0..(p.grid_width - 1)) \X (0..(p.grid_height - 1))

\* C13: with bit fill enabled, the bit pass of a fresh successful run leaves
\* every grid cell occupied (no free 1x1 position; the exported efficiency is
\* 100.0, i.e. 1000 tenths), and it adds as many bit placements, all 1x1, as
\* there were free cells when it began.
C13_BitPassSaturates ==
    /\ [][(pc = "bits" /\ config.bit_enabled) =>
            LET added == Added(placer, placer')
            IN  /\ placer'.grid = AllCellsOf(placer)
                /\ FreeAt(placer', 1, 1) = {}
                /\ Len(added) = Cardinality(AllCellsOf(placer) \ placer.grid)
                /\ \A j \in DOMAIN added :
                     /\ added[j].component_type = "bit"
                     /\ added[j].width = 1 /\ added[j].height = 1
                /\ Cardinality(BitPlacements(placer')) = Len(added)]_vars
    /\ []((Returned /\ layout_source = "fresh" /\ config.bit_enabled) =>
            /\ FreeAt(placer, 1, 1) = {}
            /\ Emitted => blueprint.metadata.efficiency = 1000)

\* A fresh blueprint whose grid was completed by at least two bits, next to a
\* stock.
C13_Witness ==
    /\ Emitted
    /\ layout_source = "fresh"
    /\ config.bit_enabled
    /\ stocks_placed >= 1
    /\ Cardinality(BitPlacements(placer)) >= 2
    /\ blueprint.metadata.efficiency = 1000

\* C14: on the fallback path (every attempt failed) no fill pass runs: the
\* load returns straight to the caller, the stock, day-number and bit passes
\* are only ever entered after a successful attempt, and the layout returned
\* and exported is exactly the one reconstructed from the fallback record (or
\* the minimal layout), with nothing added.
C14_NoFillOnFallback ==
    /\ [][(layout_source = "none" /\ layout_source' \in {"file", "minimal"}) =>
            pc' = "export"]_vars
    /\ [][(layout_source \in {"file", "minimal"}) =>
            (placer' = placer /\ layout_source' = layout_source
             /\ pc' \notin {"stocks", "day", "bits"})]_vars
    /\ [](pc \in {"stocks", "day", "bits"} => status = "succeeded")
    /\ []((Returned /\ status # "succeeded") =>
            /\ layout_source \in {"file", "minimal"}
            /\ stocks_placed = 0
            /\ \A k \in DOMAIN origin : origin[k] = 0
            /\ pc # "done" =>
                 IF fallback_file.state = "json"
                 THEN FromRecord(placer, fallback_file.blueprint)
                 ELSE IsMinimalLayout(placer)
            /\ Emitted =>
                 blueprint.components =
                    [k \in DOMAIN placer.placements |-> BlueprintComponent(placer.placements[k])])

\* A finished fallback run with every fill pass enabled whose loaded layout
\* left cells free.
C14_Witness ==
    /\ pc = "done"
    /\ layout_source = "file"
    /\ config.stock_enabled /\ config.day_enabled /\ config.bit_enabled
    /\ config.max_count >= 1
    /\ FreeAt(placer, 1, 1) # {}

\* _update_fallback_layout then _load_fallback_layout then the exporter: the
\* blueprint is dumped as JSON (strings, integers and dicts keyed by strings,
\* which json.load gives back as they were), loaded into a placer and
\* exported again.
RoundTrip(b) == _export_to_blueprint_format(_load_fallback_layout(FileJson(b)), config)

\* C15: for every blueprint the exporter produced, saving it to the fallback
\* store, loading it and exporting the loaded layout again yields the same
\* components list: same order and, per component, same id, type, row,
\* column, width, height and data.
C15_FallbackRoundTrip ==
    Emitted => RoundTrip(blueprint).components = blueprint.components

\* C16: the fallback store is written every time a fresh attempt succeeds
\* (the run ends in success and the write is made, or at least attempted) and
\* only then: a run that exhausted max_retries only reads the store and never
\* writes it, and a run with a successful attempt never reads it.
C16_StoreWrittenOnlyOnFreshSuccess ==
    /\ layout_source \in {"file", "minimal"} => "write" \notin Range(store_log)
    /\ status = "succeeded" => "read" \notin Range(store_log)
    /\ "write" \in Range(store_log) => status = "succeeded"
    /\ (pc = "done" /\ result = "success" /\ status = "succeeded") =>
          ("write" \in Range(store_log) \/ "write_failed" \in Range(store_log))

RECURSIVE SumCompArea(_)
SumCompArea(cs) ==
    IF cs = <<>> THEN 0
    ELSE Head(cs).position.width * Head(cs).position.height + SumCompArea(Tail(cs))

Abs(n) == IF n < 0 THEN -n ELSE n

\* C17: the efficiency in an emitted blueprint's metadata is
\* occupied / (columns * rows) * 100 rounded to one decimal place (a nearest
\* multiple of 0.1; the model counts tenths of a percent), where occupied,
\* the number of occupied grid cells, equals the total area of the emitted
\* components.
C17_EfficiencyRounded ==
    Emitted =>
        LET grid_config == blueprint.metadata.grid_config
            total == grid_config.columns * grid_config.rows
            occupied == Cardinality(placer.grid)
            tenths == blueprint.metadata.efficiency
        IN  /\ occupied = SumCompArea(blueprint.components)
            /\ total = placer.grid_width * placer.grid_height
            /\ 2 * Abs(tenths * total - 1000 * occupied) <= total
            /\ tenths \in 0..1000

\* A blueprint whose efficiency was rounded up to the nearest tenth.
C17_Witness ==
    /\ Emitted
    /\ Len(blueprint.components) >= 2
    /\ blueprint.metadata.efficiency *
          (blueprint.metadata.grid_config.columns * blueprint.metadata.grid_config.rows)
        > 1000 * Cardinality(placer.grid)

\* 'pattern' in the placement's id.
Has(p, pattern) == pattern \in PatternsIn(p.component_id[1])

\* C18: the exporter types each component by the first matching rule, in
\* this order: id contains 'headline', 'github_repo', 'branding',
\* 'quick_link' (the type is that word); then type tag 'stock' -> stock,
\* 'dayNumber' -> day_number, 'bit' -> bit; otherwise 'unknown'.  A match on
\* the id always wins over the carried type tag.
C18_TypeByFirstMatchingRule ==
    Emitted =>
        /\ Len(blueprint.components) = Len(placer.placements)
        /\ \A k \in DOMAIN blueprint.components :
             LET p == placer.placements[k]
                 type == blueprint.components[k].type
                 noId == \A pattern \in {"headline", "github_repo", "branding", "quick_link"} :
                            ~Has(p, pattern)
             IN  /\ Has(p, "headline") => type = "headline"
                 /\ (~Has(p, "headline") /\ Has(p, "github_repo")) => type = "github_repo"
                 /\ (~Has(p, "headline") /\ ~Has(p, "github_repo") /\ Has(p, "branding"))
                      => type = "branding"
                 /\ (~Has(p, "headline") /\ ~Has(p, "github_repo") /\ ~Has(p, "branding")
                     /\ Has(p, "quick_link")) => type = "quick_link"
                 /\ (noId /\ p.component_type = "stock") => type = "stock"
                 /\ (noId /\ p.component_type = "dayNumber") => type = "day_number"
                 /\ (noId /\ p.component_type = "bit") => type = "bit"
                 /\ (noId /\ p.component_type \notin {"stock", "dayNumber", "bit"})
                      => type = "unknown"
                 /\ ~noId => type \in {"headline", "github_repo", "branding", "quick_link"}

\* A blueprint with a component whose id holds two patterns and whose tag is
\* 'stock', typed by the earlier pattern, next to one typed by its tag.
C18_Witness ==
    /\ Emitted
    /\ \E k \in DOMAIN blueprint.components :
         /\ Has(placer.placements[k], "headline")
         /\ Has(placer.placements[k], "github_repo")
         /\ placer.placements[k].component_type = "stock"
         /\ blueprint.components[k].type = "headline"
    /\ \E k \in DOMAIN blueprint.components :
         /\ placer.placements[k].component_type = "dayNumber"
         /\ blueprint.components[k].type = "day_number"

\* C19: exporting never mutates state: the grid occupancy and the placement
\* list are the same after _export_to_blueprint_format as before it; the
\* exported components are in placement-list order, one per placement
\* (total_components is the number of placements), each with the placement's
\* id, row = y + 1, column = x + 1 and the placement's width and height.
C19_ExportReadsOnly ==
    [][(pc = "export" /\ blueprint' # NoBlueprint) =>
        /\ placer' = placer
        /\ Len(blueprint'.components) = Len(placer.placements)
        /\ blueprint'.metadata.total_components = Len(placer.placements)
        /\ \A k \in DOMAIN placer.placements :
             LET p == placer.placements[k]
                 c == blueprint'.components[k]
             IN  /\ c.id = p.component_id
                 /\ c.position.row = p.y + 1
                 /\ c.position.column = p.x + 1
                 /\ c.position.width = p.width
                 /\ c.position.height = p.height]_vars

\* An exported layout of at least three placements, one of them off the
\* grid's diagonal and not square.
C19_Witness ==
    /\ pc = "save"
    /\ Len(blueprint.components) >= 3
    /\ \E k \in DOMAIN placer.placements :
         /\ placer.placements[k].x # placer.placements[k].y
         /\ placer.placements[k].width # placer.placements[k].height

\* C20: process() never raises to its caller.  It ends with a success result
\* or a failure result; when saving the blueprint file fails, or an exception
\* reaches it during generation, the result is the failure result (success
\* = False) with an error message.
C20_NeverRaises ==
    /\ [](result \in {"running", "success", "failure"})
    /\ [](pc = "done" <=> result # "running")
    /\ [](result = "failure" => error # "")
    /\ [](result \in {"running", "success"} => error = "")
    /\ [][(pc = "save" /\ pc' # "update_fallback") =>
            (result' = "failure" /\ error' = "Failed to save grid blueprint")]_vars
    /\ [][(pc = "export" /\ pc' # "save") =>
            (result' = "failure" /\ error' = "'cell_size'" /\ blueprint' = NoBlueprint)]_vars

\* A run whose placement succeeded and whose export raised: it ended with
\* the failure result carrying the exception's text.
C20_Witness ==
    /\ pc = "done"
    /\ status = "succeeded"
    /\ Len(placer.placements) >= 2
    /\ result = "failure"
    /\ error = "'cell_size'"

\* C21 as stated: a failure while saving the fallback record is returned by
\* process() as a failure result (success = False) with an error message.
C21_FallbackSaveFailureReturned ==
    "write_failed" \in Range(store_log) => (result = "failure" /\ error # "")

\* C21 amended: a failure while saving the fallback record is caught inside
\* _update_fallback_layout and only logged; process() does not raise and
\* returns the success result, without an error message, for the blueprint it
\* saved.
C21_FallbackSaveFailureLogged ==
    "write_failed" \in Range(store_log) =>
        /\ pc = "done"
        /\ result = "success"
        /\ error = ""
        /\ Emitted

\* A fresh run whose fallback write raised part-way and left the store
\* unreadable.
C21_Witness ==
    /\ pc = "done"
    /\ layout_source = "fresh"
    /\ "write_failed" \in Range(store_log)
    /\ fallback_file = FileCorrupt
    /\ Len(blueprint.components) >= 2

\* The rectangle sizes the properties of the placer's queries range over.
ProbeSizes == {1, 2, 3}

\* The coordinates they range over along an axis of length n: from one cell
\* before the grid to one past its end, close to either end (all of them for
\* n up to 5).
ProbeCoords(n) == {c \in {-1, 0, 1, 2, n - 2, n - 1, n} : c >= -1}

\* can_place agrees, on placer p, with "in bounds and every cell free" for
\* every probed position on and around the grid and every probed size.
CanPlaceAgrees(p) ==
    \A x \in ProbeCoords(p.grid_width), y \in ProbeCoords(p.grid_height) :
        \A w \in ProbeSizes, h \in ProbeSizes :
            can_place(p, x, y, w, h) <=>
                /\ x >= 0 /\ y >= 0
                /\ x + w <= p.grid_width /\ y + h <= p.grid_height
                /\ \A cx \in x..(x + w - 1), cy \in y..(y + h - 1) : <<cx, cy>> \notin p.grid

\* C22: can_place(x, y, w, h) is true if and only if x >= 0, y >= 0,
\* x + w <= columns, y + h <= rows and every cell of the rectangle is free
\* (on the first placer and on every placer a step produces).  It changes
\* neither the grid nor the placement list: a position draw that scans the
\* whole grid with can_place and finds nothing leaves the placer as it was,
\* so the same call gives the same answer until something is placed.
C22_CanPlaceIffFreeInBounds ==
    /\ CanPlaceAgrees(placer)
    /\ [][placer' # placer => CanPlaceAgrees(placer')]_vars
    /\ [][(pc \in {"branding", "placing"} /\ Len(placer'.placements) = Len(placer.placements)) =>
            placer' = placer]_vars

\* A grid, part-way through an attempt, on which can_place accepts one
\* position and rejects another, in-bounds one for the same size.
C22_Witness ==
    /\ pc = "placing"
    /\ placer.grid # {}
    /\ \E x \in 0..(placer.grid_width - 2), y \in 0..(placer.grid_height - 1) :
         can_place(placer, x, y, 2, 1)
    /\ \E x \in 0..(placer.grid_width - 2), y \in 0..(placer.grid_height - 1) :
         ~can_place(placer, x, y, 2, 1)

\* place_component on placer p, for every probed position on and around the
\* grid and every probed size: rejected exactly when can_place is false, and then
\* nothing changes; accepted otherwise, and then exactly the rectangle's cells
\* become occupied and one placement is appended at the end of the list.
PlaceComponentAgrees(p) ==
    \A x \in ProbeCoords(p.grid_width), y \in ProbeCoords(p.grid_height) :
        \A w \in ProbeSizes, h \in ProbeSizes :
            LET after == place_component(p, <<"probe", 1>>, x, y, w, h, "probe", NoneData)
                returned == place_component_returns(p, x, y, w, h)
                rect == {<<cx, cy>> : cx \in x..(x + w - 1), cy \in y..(y + h - 1)}
            IN  IF ~can_place(p, x, y, w, h)
                THEN returned = FALSE /\ after = p
                ELSE /\ returned = TRUE
                     /\ after.grid \ p.grid = rect
                     /\ p.grid \subseteq after.grid
                     /\ Len(after.placements) = Len(p.placements) + 1
                     /\ SubSeq(after.placements, 1, Len(p.placements)) = p.placements
                     /\ after.placements[Len(after.placements)] =
                           Placement(<<"probe", 1>>, x, y, w, h, "probe", NoneData)
                     /\ after.grid_width = p.grid_width /\ after.grid_height = p.grid_height

\* C23: place_component returns false and leaves the grid and the placement
\* list unchanged when can_place is false for its rectangle; when can_place
\* is true it returns true, marks exactly the covered cells occupied and
\* appends exactly one placement at the end of the list.  Checked on the
\* first placer and on every placer a step produces; and every step of a run
\* that changes the placer either starts an attempt, loads the fallback, or
\* only appends placements and adds their cells.
C23_PlaceComponentAllOrNothing ==
    /\ PlaceComponentAgrees(placer)
    /\ [][placer' # placer => PlaceComponentAgrees(placer')]_vars
    /\ [][(placer' # placer /\ attempt' = attempt /\ pc # "loop") =>
            /\ Len(placer'.placements) > Len(placer.placements)
            /\ SubSeq(placer'.placements, 1, Len(placer.placements)) = placer.placements
            /\ placer'.grid =
                  placer.grid \cup UNION {Slice(a.x, a.y, a.width, a.height) :
                                             a \in Range(Added(placer, placer'))}]_vars

\* A layout loaded from the fallback record with overlapping and out-of-grid
\* components: three place_component calls were accepted and two rejected.
C23_Witness ==
    /\ pc = "export"
    /\ fallback_file = FileJson(StoredDirty)
    /\ Len(placer.placements) = 3
    /\ Cardinality(placer.grid) = 3

\* get_available_positions and get_random_position on placer p, for every
\* probed size.
AvailablePositionsAgree(p) ==
    \A w \in ProbeSizes, h \in ProbeSizes :
        \A list \in {get_available_positions(p, w, h)} :
            \A listed \in {Range(list)}, drawable \in {get_random_position(p, w, h)} :
                /\ \A pos \in listed : can_place(p, pos[1], pos[2], w, h)
                /\ \A x \in ProbeCoords(p.grid_width), y \in ProbeCoords(p.grid_height) :
                     can_place(p, x, y, w, h) => <<x, y>> \in listed
                /\ \A i \in 1..(Len(list) - 1) : Before(list[i], list[i + 1])
                /\ (w > p.grid_width \/ h > p.grid_height) => list = <<>>
                /\ drawable \subseteq listed
                /\ drawable = {} <=> list = <<>>

\* C24: get_available_positions(w, h) returns exactly the top-left
\* coordinates for which can_place(x, y, w, h) is true, each once, in
\* row-major order (ascending y, then ascending x), and the empty list when w
\* or h exceeds the grid; get_random_position(w, h) returns a member of that
\* list, and none exactly when the list is empty.  Checked on the first
\* placer and on every placer a step produces.
C24_AvailablePositionsRowMajor ==
    /\ AvailablePositionsAgree(placer)
    /\ [][placer' # placer => AvailablePositionsAgree(placer')]_vars

\* A partly filled grid on which the free positions of a 2x1 and of a 1x2
\* rectangle differ and a 3x3 rectangle has none.
C24_Witness ==
    /\ pc = "placing"
    /\ placer.grid # {}
    /\ Len(get_available_positions(placer, 2, 1)) >= 2
    /\ get_available_positions(placer, 2, 1) # get_available_positions(placer, 1, 2)
    /\ get_random_position(placer, 3, 3) = {}

\* The step of a fresh run that made a placement: 1 branding, 2 other
\* required, 3 stock pass, 4 day-number pass, 5 bit pass.
Phase(p) ==
    CASE p.component_id \in BrandingIds -> 1
      [] p.component_id \in RequiredIds(config) \ BrandingIds -> 2
      [] p.component_type = "stock" -> 3
      [] p.component_type = "dayNumber" -> 4
      [] p.component_type = "bit" -> 5
      [] OTHER -> 0

\* C25: in the placement list, and so in the components list, of a blueprint
\* from a fresh successful run the order is: all branding placements, then
\* all other required placements, then all stock placements, then the
\* day-number placement (if any), then all bit placements; and every
\* placement lies in cells left free by all placements before it.  (Stated
\* of the blueprint as it leaves the exporter.)
C25_PlacementOrder ==
    (pc = "save" /\ layout_source = "fresh") =>
        \A ps \in {placer.placements} :
          \A phase \in {[k \in DOMAIN ps |-> Phase(ps[k])]} :
            /\ \A k \in DOMAIN ps : phase[k] \in 1..5
            /\ \A k \in 1..(Len(ps) - 1) : phase[k] <= phase[k + 1]
            /\ \A i, j \in DOMAIN ps :
                 i < j => ~(/\ ps[i].x < ps[j].x + ps[j].width /\ ps[j].x < ps[i].x + ps[i].width
                            /\ ps[i].y < ps[j].y + ps[j].height /\ ps[j].y < ps[i].y + ps[i].height)
            /\ Len(blueprint.components) = Len(ps)
            /\ \A k \in DOMAIN ps : blueprint.components[k].id = ps[k].component_id

\* A fresh blueprint holding a branding, another required component, a
\* stock, the day number and a bit, from a catalog that lists the branding
\* last.
C25_Witness ==
    /\ Emitted
    /\ layout_source = "fresh"
    /\ config.components = CatalogHeadlineBranding
    /\ \A phase \in 1..5 : \E k \in DOMAIN placer.placements : Phase(placer.placements[k]) = phase

\* C26: the hard-coded minimal fallback layout is a 12x16 grid containing
\* all three of its hard-coded placements: branding_1 (2x2 at x=0, y=0),
\* headline_1 (5x4 at x=2, y=0) and quick_link_1 (6x1 at x=0, y=2).
C26_MinimalLayoutHasThreePlacements ==
    (Returned /\ layout_source = "minimal") =>
        /\ placer.grid_width = 12 /\ placer.grid_height = 16
        /\ Len(placer.placements) = 3
        /\ \E k \in DOMAIN placer.placements :
             placer.placements[k] = Placement(<<"branding", 1>>, 0, 0, 2, 2, "branding", NoneData)
        /\ \E k \in DOMAIN placer.placements :
             placer.placements[k] = Placement(<<"headline", 1>>, 2, 0, 5, 4, "headline", NoneData)
        /\ \E k \in DOMAIN placer.placements :
             placer.placements[k] = Placement(<<"quick_link", 1>>, 0, 2, 6, 1, "quick_link", NoneData)

\* The free positions for the worklist item at hand.
ItemPositions ==
    get_available_positions(placer, all_components[wi].width, all_components[wi].height)

\* C27: within an attempt every position get_random_position returns is
\* accepted by the place_component call that follows, so the 'placement
\* rejected' branches are never taken: a draw misses only when no free
\* position exists.  The 10 draws of a worklist item see the same grid: the
\* item (or a branding instance) fails exactly when no free position of its
\* size exists at its turn, and nothing is ever placed by draws 2 to 10.
C27_DrawnPositionsAreAccepted ==
    /\ [][(pc = "placing" /\ tries' = tries + 1) => ItemPositions = <<>>]_vars
    /\ [][(pc = "placing" /\ status' = "failed") => (ItemPositions = <<>> /\ tries = 10)]_vars
    /\ [][(pc = "placing" /\ wi <= Len(all_components) /\ tries = 0
           /\ ~InstancePlaced(all_components[wi], placed)) =>
             IF ItemPositions = <<>>
             THEN placer' = placer /\ tries' = 1
             ELSE /\ Len(placer'.placements) = Len(placer.placements) + 1
                  /\ wi' = wi + 1]_vars
    /\ [][(pc = "placing" /\ tries >= 1) => (placer' = placer /\ wi' = wi)]_vars
    /\ [][(pc = "branding" /\ bi <= Len(BrandingInstances(config))) =>
             IF get_available_positions(placer, BrandingInstances(config)[bi].width,
                                        BrandingInstances(config)[bi].height) = <<>>
             THEN status' = "failed" /\ placer' = placer
             ELSE status' = status /\ Len(placer'.placements) = Len(placer.placements) + 1]_vars

\* A worklist item half-way through its 10 draws on a partly filled grid
\* that has no free position for it.
C27_Witness ==
    /\ pc = "placing"
    /\ tries = 5
    /\ placer.grid # {}
    /\ wi <= Len(all_components)
    /\ ItemPositions = <<>>

\* C28: loading a fallback record whose components overlap one another or
\* leave the record's grid does not fail.  The components are applied in
\* file order, one that cannot be placed (outside the grid, or overlapping a
\* component accepted before it) is skipped, and the loaded placement list is
\* the order-preserving sub-list of the accepted components; it has as many
\* placements as the record has components exactly when the record's
\* components are pairwise disjoint and in bounds.
C28_FallbackLoadSkipsUnplaceable ==
    (pc = "export" /\ fallback_file.state = "json") =>
        \A comps \in {fallback_file.blueprint.components} :
          \A grid_config \in {fallback_file.blueprint.metadata.grid_config} :
            /\ layout_source = "file"
            /\ result = "running"
            /\ placer.grid_width = grid_config.columns
            /\ placer.grid_height = grid_config.rows
            /\ \E f \in [1..Len(placer.placements) -> DOMAIN comps] :
                 /\ \A a, b \in DOMAIN f : a < b => f[a] < f[b]
                 /\ \A k \in DOMAIN f : Reconstructs(placer.placements[k], comps[f[k]])
                 /\ \A j \in DOMAIN comps :
                      (\E k \in DOMAIN f : f[k] = j) <=>
                         /\ InRecordGrid(comps[j], grid_config)
                         /\ \A k \in DOMAIN f : f[k] < j => ~Intersect(comps[f[k]], comps[j])
            /\ Len(placer.placements) = Len(comps) <=>
                 /\ \A j \in DOMAIN comps : InRecordGrid(comps[j], grid_config)
                 /\ \A i, j \in DOMAIN comps : i < j => ~Intersect(comps[i], comps[j])

\* The layout loaded from a record of five components of which the second
\* overlaps the first and the third leaves the grid: the fifth, which only
\* overlaps the skipped second, is the last of three placements.
C28_Witness ==
    /\ pc = "export"
    /\ fallback_file = FileJson(StoredDirty)
    /\ Len(placer.placements) = 3
    /\ placer.placements[3].component_id = <<"bit", 1>>
    /\ placer.placements[2].component_id = <<"stock", 1>>

\* C29: on the fallback path the emitted blueprint's metadata.grid_config
\* columns and rows are the dimensions stored in the fallback record that was
\* read (12 and 16 for the minimal layout), whatever the configured grid
\* dimensions are; on the fresh path they are the configured columns and rows.
C29_GridConfigFollowsLayoutSource ==
    (pc \in {"save", "update_fallback"} /\ blueprint # NoBlueprint) =>
        \A grid_config \in {blueprint.metadata.grid_config} :
            CASE layout_source = "file" ->
                   /\ fallback_file.state = "json"
                   /\ grid_config = fallback_file.blueprint.metadata.grid_config
              [] layout_source = "minimal" ->
                   /\ fallback_file.state \in {"missing", "corrupt"}
                   /\ grid_config = [columns |-> 12, rows |-> 16]
              [] layout_source = "fresh" ->
                   grid_config = [columns |-> config.columns, rows |-> config.rows]
              [] OTHER -> FALSE

\* A blueprint built from the 5x1 fallback record under a 3x3 configuration.
C29_Witness ==
    /\ pc = "update_fallback"
    /\ layout_source = "file"
    /\ fallback_file = FileJson(StoredMixed)
    /\ config.columns = 3
    /\ config.rows = 3
    /\ blueprint.metadata.grid_config = [columns |-> 5, rows |-> 1]

\* The catalog's names are pairwise distinct and none is a filler's name.
DistinctNames(catalog) ==
    /\ \A i, j \in DOMAIN catalog : catalog[i].name = catalog[j].name => i = j
    /\ \A i \in DOMAIN catalog : catalog[i].name \notin {"stock", "day", "bit"}

\* name_1 .. name_n for every component of the catalog.
CatalogIds(catalog) ==
    UNION {{<<catalog[k].name, i>> : i \in 1..catalog[k].count} : k \in DOMAIN catalog}

IdsNamed(ids, name) == {id \in ids : id[1] = name}

====
